---- MODULE Spec2Model ----
(***************************************************************************)
(* The Kudos transfer lifecycle of app/kudos/views.py: send_3 (create the  *)
(* KudosTransfer row), send_4 (store the funding txid) and receive (the    *)
(* recipient's claim), over a shared relational store of KudosTransfer     *)
(* rows and Profile rows.  A request is accepted, handled by its view in   *)
(* one atomic step, and its response returned.                             *)
(***************************************************************************)
EXTENDS Integers, Sequences, FiniteSets, TLC

VARIABLES
    transfers,   \* the KudosTransfer table: a sequence of rows, pk = index
    profiles,    \* the Profile table: pk -> row
    tokens,      \* the Token table: pk -> row
    coupons,     \* the BulkTransferCoupon table: pk -> row
    redemptions, \* the BulkTransferRedemption table: a set of rows
    request,     \* the request the server has accepted and not yet answered
    response     \* the response of that request once its view has run

vars == <<transfers, profiles, tokens, coupons, redemptions, request, response>>

\* the tables no view of this module writes
catalog == <<tokens, coupons, redemptions>>

(***************************************************************************)
(* Bounds of the model.                                                    *)
(***************************************************************************)
\* rows the KudosTransfer table may hold
MaxTransfers == 1

(***************************************************************************)
(* Strings that the code edits (usernames, handles) are sequences of       *)
(* characters, so that replace / lstrip / iexact are computed.             *)
(***************************************************************************)
NoName == << >>
AliceName == <<"a", "l">>
BobName == <<"b", "o", "b">>
AtBobName == <<"@", "b", "o", "b">>
\* a recipient name typed with an "@" inside it
BobAtName == <<"b", "@", "o", "b">>
CarolName == <<"c", "a">>
DaveName == <<"d", "a">>

\* str.replace('@', ''): every '@' is removed
StripAt(s) == SelectSeq(s, LAMBDA c : c # "@")

\* str.lstrip('@'): the leading '@' characters are removed
RECURSIVE LStripAt(_)
LStripAt(s) ==
    IF s # << >> /\ Head(s) = "@" THEN LStripAt(Tail(s)) ELSE s

\* case folding of one character, for handle__iexact
LowerChar(c) ==
    CASE c = "A" -> "a"
      [] c = "B" -> "b"
      [] c = "C" -> "c"
      [] c = "D" -> "d"
      [] OTHER -> c

Lower(s) == [i \in DOMAIN s |-> LowerChar(s[i])]

(***************************************************************************)
(* Values of the request parameters.                                       *)
(***************************************************************************)
\* a GET parameter that the query string does not carry
Absent == "<absent>"

\* Python truthiness of a string-valued parameter or field
Truthy(v) == v # Absent /\ v # ""

\* request.GET.get(k): None for a parameter that is absent
GetParam(v) == IF v = Absent THEN "" ELSE v

Meta1 ==
    [address |-> "0xabc", creation_time |-> 100, salt |-> "s1",
     reference_hash_for_receipient |-> "hr1",
     reference_hash_for_funder |-> "hf1"]

Meta2 ==
    [address |-> "0xdef", creation_time |-> 200, salt |-> "s2",
     reference_hash_for_receipient |-> "hr2",
     reference_hash_for_funder |-> "hf2"]

Metadatas == {Meta1, Meta2}

\* the lookup key of send_4: (destinationAccount, creation_time, salt)
TripleOf(m) ==
    [address |-> m.address, creation_time |-> m.creation_time, salt |-> m.salt]

Triples ==
    {TripleOf(m) : m \in Metadatas}
        \cup {[address |-> "0xabc", creation_time |-> 100, salt |-> "s9"]}

TxIds == {"", "0xdeadbeef"}
\* the query strings of receive: receive_txid, forwarding_address, save_addr
ClaimQueries ==
    {[receive_txid |-> Absent, forwarding_address |-> Absent, save_addr |-> Absent],
     [receive_txid |-> "0xrecv", forwarding_address |-> "0xfwd", save_addr |-> "true"],
     [receive_txid |-> "0xrecv", forwarding_address |-> "0xfwd", save_addr |-> ""],
     [receive_txid |-> "0xrecv", forwarding_address |-> "0xfwd", save_addr |-> Absent],
     [receive_txid |-> "0xrecv", forwarding_address |-> Absent, save_addr |-> "true"],
     [receive_txid |-> "0xrecv", forwarding_address |-> Absent, save_addr |-> ""]}
Keys == {"hr1", "hf1", "hr2", "nokey"}
Networks == {"mainnet"}
IPs == {"10.0.0.1", "10.0.0.2"}
\* timezone.now(): a timestamp later than the epoch
Times == {1}
\* what eth.getBalance returns for the destination address
Balances == {0, 1}
\* the Token rows: a Gen0 template (42) and a clone of it (99) in one contract,
\* and a template with the same chain token id (43) and its clone (100) in the
\* contract of another network
InitTokens ==
    42 :> [token_id |-> 42, contract |-> "0xk1", num_clones_allowed |-> 5,
           num_clones_in_wild |-> 3, cloned_from_id |-> 42]
    @@ 99 :> [token_id |-> 99, contract |-> "0xk1", num_clones_allowed |-> 0,
              num_clones_in_wild |-> 0, cloned_from_id |-> 42]
    @@ 43 :> [token_id |-> 42, contract |-> "0xk2", num_clones_allowed |-> 9,
              num_clones_in_wild |-> 1, cloned_from_id |-> 42]
    @@ 100 :> [token_id |-> 7, contract |-> "0xk2", num_clones_allowed |-> 0,
               num_clones_in_wild |-> 0, cloned_from_id |-> 42]
KudosIds == {0, 42, 7}
\* the kudos_id of the details URLs: the four Token rows and an unknown id
DetailIds == {42, 99, 43, 100, 7}
\* the coupon secrets of the receive_bulk URLs
Secrets == {"s3cr3t", "wrong"}
\* what a call of the notification sink or of a save may do
SinkOutcomes == {"ok", "raise"}

(***************************************************************************)
(* request.user                                                            *)
(***************************************************************************)
Anonymous == [username |-> NoName, is_authenticated |-> FALSE, profile |-> 0]
AliceUser == [username |-> AliceName, is_authenticated |-> TRUE, profile |-> 1]
BobUser == [username |-> BobName, is_authenticated |-> TRUE, profile |-> 2]
CarolUser == [username |-> CarolName, is_authenticated |-> TRUE, profile |-> 3]
\* an authenticated user without a linked profile
DaveUser == [username |-> DaveName, is_authenticated |-> TRUE, profile |-> 0]

Users == {Anonymous, AliceUser, BobUser, CarolUser, DaveUser}

\* the send_3 requests: the caller, the client address, and the JSON payload
\* (recipient username, network and metadata blob)
Send3Requests ==
    {[user |-> AliceUser, ip |-> "10.0.0.1",
      payload |-> [username |-> AtBobName, metadata |-> Meta1, network |-> "mainnet"]],
     [user |-> Anonymous, ip |-> "10.0.0.1",
      payload |-> [username |-> BobName, metadata |-> Meta1, network |-> "mainnet"]],
     [user |-> AliceUser, ip |-> "10.0.0.1",
      payload |-> [username |-> BobName, metadata |-> Meta2, network |-> "mainnet"]],
     [user |-> Anonymous, ip |-> "10.0.0.1",
      payload |-> [username |-> BobAtName, metadata |-> Meta2, network |-> "mainnet"]]}

\* the callers of send_4 and their client addresses
Send4Requests ==
    {[user |-> Anonymous, ip |-> "10.0.0.1"],
     [user |-> Anonymous, ip |-> "10.0.0.2"],
     [user |-> AliceUser, ip |-> "10.0.0.2"],
     [user |-> CarolUser, ip |-> "10.0.0.2"]}

(***************************************************************************)
(* Rows.                                                                   *)
(***************************************************************************)
\* the column defaults of a KudosTransfer row that send_3 does not pass
DefaultTransfer ==
    [web3_type |-> "v3", trust_url |-> FALSE, txid |-> "", receive_txid |-> "",
     receive_address |-> "", received_on |-> 0]

\* KudosTransfer.objects.create(...) of send_3
NewTransfer(req, payload) ==
    [ip |-> req.ip,
     from_username |->
        IF req.user.is_authenticated THEN req.user.username ELSE NoName,
     username |-> payload.username,
     network |-> payload.network,
     metadata |-> payload.metadata,
     web3_type |-> DefaultTransfer.web3_type,
     trust_url |-> DefaultTransfer.trust_url,
     txid |-> DefaultTransfer.txid,
     receive_txid |-> DefaultTransfer.receive_txid,
     receive_address |-> DefaultTransfer.receive_address,
     received_on |-> DefaultTransfer.received_on]

\* a row created outside this workflow that carries the trust-url flag
TrustedTransfer ==
    [NewTransfer([user |-> AliceUser, ip |-> "10.0.0.1"],
                 [username |-> BobName, metadata |-> Meta2, network |-> "mainnet"])
        EXCEPT !.trust_url = TRUE]

\* one coupon, which bob has redeemed and nobody else has
InitCoupons == 1 :> [secret |-> "s3cr3t"]

InitRedemptions == {[redeemed_by |-> 2, coupon |-> 1]}

InitProfiles ==
    1 :> [handle |-> AliceName, created_on |-> 1, preferred_payout_address |-> ""]
    @@ 2 :> [handle |-> BobName, created_on |-> 2, preferred_payout_address |-> "0xold"]
    @@ 3 :> [handle |-> CarolName, created_on |-> 3, preferred_payout_address |-> ""]

\* a request: the view, the caller, the caller's address, and the view's
\* arguments (URL parameters, JSON body or query string)
Req(op, user, ip, args) == [op |-> op, user |-> user, ip |-> ip, args |-> args]

NoRequest == Req("none", Anonymous, "", [none |-> TRUE])

\* the response of a request: the view, the HTTP status, the message shown, the
\* row the view resolved (0: none), whether it saved that row, the notification
\* dispatches attempted, whether the rendered row is shown as received, what
\* became of the activity entry, the statement that raised (if any), and the
\* context the view hands to its template
NoContext == [none |-> TRUE]

Resp(op, status, message, pk, saved, notified, shown_received, activity, raised) ==
    [op |-> op, status |-> status, message |-> message, pk |-> pk,
     saved |-> saved, notified |-> notified, shown_received |-> shown_received,
     activity |-> activity, raised |-> raised, context |-> NoContext]

NoResponse == Resp("none", 0, "none", 0, FALSE, 0, FALSE, "none", "none")

Pks == 1..Len(transfers)

Init ==
    /\ transfers \in {<< >>, <<TrustedTransfer>>}
    /\ profiles = InitProfiles
    /\ tokens = InitTokens
    /\ coupons = InitCoupons
    /\ redemptions = InitRedemptions
    /\ request = NoRequest
    /\ response = NoResponse

(***************************************************************************)
(* The requests clients send.                                              *)
(***************************************************************************)
ClaimTxIds == TxIds \ {""}

Requests ==
    {Req("send_3", r.user, r.ip, [payload |-> r.payload, kudosId |-> k]) :
        r \in Send3Requests, k \in KudosIds}
    \cup
    {Req("send_4", r.user, r.ip,
         [triple |-> t[1], txid |-> t[2], is_direct_to_recipient |-> t[3]]) :
        r \in Send4Requests, t \in Triples \X TxIds \X BOOLEAN}
    \cup
    {Req("receive", u, "10.0.0.2",
         [key |-> k[1], txid |-> k[2], network |-> k[3], GET |-> q]) :
        u \in Users, k \in Keys \X ClaimTxIds \X Networks, q \in ClaimQueries}
    \cup
    {Req("receive_bulk", u, "10.0.0.2", [secret |-> x]) :
        u \in Users, x \in Secrets}
    \cup
    {Req("details", Anonymous, "10.0.0.2", [kudos_id |-> k]) : k \in DetailIds}

\* the server accepts a request while it serves no other
Accept(r) ==
    /\ request.op = "none"
    /\ response.op = "none"
    /\ request' = r
    /\ UNCHANGED <<transfers, profiles, response>>
    /\ UNCHANGED catalog

\* the response leaves the server
Return ==
    /\ response.op # "none"
    /\ response' = NoResponse
    /\ request' = NoRequest
    /\ UNCHANGED <<transfers, profiles>>
    /\ UNCHANGED catalog

(***************************************************************************)
(* Profile Directory.                                                      *)
(***************************************************************************)
\* a lookup that compares the handle as it is written
get_profile_exact(handle) ==
    LET matching == {p \in DOMAIN profiles : profiles[p].handle = handle}
    IN  IF Cardinality(matching) = 1 THEN CHOOSE p \in matching : TRUE
        ELSE IF matching = {} THEN 0
        ELSE CHOOSE p \in matching :
                \A q \in matching :
                    profiles[q].created_on <= profiles[p].created_on

\* get_profile: Profile.objects.get(handle__iexact=handle); several matches
\* fall back to the most recently created one, none gives None (0)
get_profile(handle) ==
    LET matching ==
            {p \in DOMAIN profiles : Lower(profiles[p].handle) = Lower(handle)}
    IN  IF Cardinality(matching) = 1 THEN CHOOSE p \in matching : TRUE
        ELSE IF matching = {} THEN 0
        ELSE CHOOSE p \in matching :
                \A q \in matching :
                    profiles[q].created_on <= profiles[p].created_on

(***************************************************************************)
(* send_3: stage 3, the transfer row is created with no txid.              *)
(***************************************************************************)
\* the validation without the lookup of the Token row
Send3TokenMissingOnlyIfFalsy(kudos_id) == kudos_id = 0

\* the token reference is missing (falsy) or resolves to no Token row
Send3TokenMissing(kudos_id) == kudos_id = 0 \/ kudos_id \notin DOMAIN tokens

send_3 ==
    /\ request.op = "send_3"
    /\ response.op = "none"
    /\ UNCHANGED request
    /\ UNCHANGED catalog
    /\ IF Send3TokenMissing(request.args.kudosId)
       THEN /\ response' =
                    Resp("send_3", 404, "Http404", 0, FALSE, 0, FALSE, "none",
                         "Http404")
            /\ UNCHANGED <<transfers, profiles>>
       ELSE /\ Len(transfers) < MaxTransfers
            /\ transfers' =
                    Append(transfers, NewTransfer(request, request.args.payload))
            /\ response' =
                    Resp("send_3", 200, "Kudos Created", 0, TRUE, 0, FALSE,
                         "none", "none")
            /\ UNCHANGED profiles

(***************************************************************************)
(* send_4: stage 4, the funding txid is stored.                            *)
(***************************************************************************)
\* KudosTransfer.objects.get(metadata__address=..., metadata__creation_time=...,
\* metadata__salt=...): the rows the triple matches
Send4Matches(triple) ==
    {i \in Pks : TripleOf(transfers[i].metadata) = triple}

\* a lookup that takes a matching row whenever there is one
Send4ResolvesFirstMatch(matching) == matching # {}

\* objects.get(...) returns a row only when exactly one row matches
Send4Resolves(matching) == Cardinality(matching) = 1

\* the login check without the test that the stored sender username is set
LoginCheckWithoutEmptyGuard(kt, req) == kt.from_username = req.user.username

is_authenticated_via_login(kt, req) ==
    kt.from_username # NoName /\ kt.from_username = req.user.username

is_authenticated_for_this_via_ip(kt, req) == kt.ip = req.ip

Send4IsAuthed(kt, req) ==
    is_authenticated_for_this_via_ip(kt, req) \/ is_authenticated_via_login(kt, req)

\* send_4 assigning receive_txid whatever the direct-to-recipient flag says
Send4SaveAlwaysDirect(kt, txid, is_direct_to_recipient) ==
    [kt EXCEPT !.txid = txid, !.receive_txid = txid]

\* the fields send_4 assigns before kudos_transfer.save()
Send4Save(kt, txid, is_direct_to_recipient) ==
    [kt EXCEPT !.txid = txid,
               !.receive_txid = IF is_direct_to_recipient THEN txid ELSE @]

\* the response once the row is saved: maybe_market_kudos_to_email is called
\* outside any try block, so an exception it raises ends the request
Send4Notify(pk, sink) ==
    IF sink = "ok"
    THEN Resp("send_4", 200, "Kudos Sent", pk, TRUE, 1, FALSE, "none", "none")
    ELSE Resp("send_4", 500, "exception", pk, TRUE, 1, FALSE, "none",
              "maybe_market_kudos_to_email")

send_4 ==
    LET matching == Send4Matches(request.args.triple) IN
    /\ request.op = "send_4"
    /\ response.op = "none"
    /\ UNCHANGED request
    /\ UNCHANGED catalog
    /\ IF ~Send4Resolves(matching)
       THEN /\ response' =
                    LET e == IF matching = {} THEN "DoesNotExist"
                             ELSE "MultipleObjectsReturned"
                    IN  Resp("send_4", 500, "exception", 0, FALSE, 0, FALSE,
                             "none", e)
            /\ UNCHANGED <<transfers, profiles>>
       ELSE LET pk == CHOOSE i \in matching : TRUE
                kt == transfers[pk]
            IN  IF ~Send4IsAuthed(kt, request)
                THEN /\ response' =
                            Resp("send_4", 401, "Permission Denied", pk, FALSE, 0,
                                 FALSE, "none", "none")
                     /\ UNCHANGED <<transfers, profiles>>
                ELSE /\ transfers' =
                            [transfers EXCEPT
                                ![pk] = Send4Save(kt, request.args.txid,
                                            request.args.is_direct_to_recipient)]
                     /\ \E sink \in SinkOutcomes : response' = Send4Notify(pk, sink)
                     /\ UNCHANGED profiles

(***************************************************************************)
(* record_kudos_email_activity: the activity entry of a claim.             *)
(***************************************************************************)
\* Profile.objects.get(handle=github_handle) is an exact match; without a
\* profile the function logs and returns; an exception of
\* Activity.objects.create is caught and logged
record_kudos_email_activity(kt, github_handle, fail) ==
    IF {p \in DOMAIN profiles : profiles[p].handle = github_handle} = {}
    THEN "no_profile"
    ELSE IF fail = "Activity.objects.create" THEN "swallowed" ELSE "created"

(***************************************************************************)
(* receive: the claim.                                                     *)
(***************************************************************************)
\* the statement of the mutation block the environment makes fail
ClaimFailures ==
    {"none", "profile.save", "kudos_transfer.save", "record_user_action",
     "Activity.objects.create"}

\* the lookup without the narrowing by key
ReceiveMatchesAnyKey(key, txid, network) ==
    {i \in Pks :
        /\ transfers[i].web3_type = "v3"
        /\ transfers[i].txid = txid
        /\ transfers[i].network = network}

\* KudosTransfer.objects.filter(web3_type='v3', txid=txid, network=network),
\* narrowed to the rows whose metadata carries the key in either role
ReceiveMatches(key, txid, network) ==
    {i \in Pks :
        /\ transfers[i].web3_type = "v3"
        /\ transfers[i].txid = txid
        /\ transfers[i].network = network
        /\ \/ transfers[i].metadata.reference_hash_for_receipient = key
           \/ transfers[i].metadata.reference_hash_for_funder = key}

\* QuerySet.first(): the matching row of lowest pk
First(matching) == CHOOSE i \in matching : \A j \in matching : i <= j

\* the authorization of receive letting every caller through
ReceiveIsAuthedAnyone(kt, user) == TRUE

ReceiveIsAuthed(kt, user) ==
    \/ kt.trust_url
    \/ StripAt(user.username) \in
            {StripAt(kt.username), StripAt(kt.from_username)}

\* the login gate: no session, or a session without a linked profile
LoginRequired(user) ==
    ~user.is_authenticated \/ (user.is_authenticated /\ user.profile = 0)

\* the chain with the mining guard moved in front of the other guards
ReceiveBranchMiningFirst(kt, is_authed, not_mined_yet, receive_txid) ==
    IF not_mined_yet /\ ~Truthy(receive_txid) THEN "mining"
    ELSE IF Truthy(kt.receive_txid) THEN "received"
    ELSE IF ~is_authed THEN "not_authed"
    ELSE IF Truthy(receive_txid) THEN "mutate"
    ELSE "none"

\* the chain without its first guard, the test that the row is already claimed
ReceiveBranchWithoutReceivedGuard(kt, is_authed, not_mined_yet, receive_txid) ==
    IF ~is_authed THEN "not_authed"
    ELSE IF not_mined_yet /\ ~Truthy(receive_txid) THEN "mining"
    ELSE IF Truthy(receive_txid) THEN "mutate"
    ELSE "none"

\* the if / elif chain of receive: the one branch a request takes
ReceiveBranch(kt, is_authed, not_mined_yet, receive_txid) ==
    IF Truthy(kt.receive_txid) THEN "received"
    ELSE IF ~is_authed THEN "not_authed"
    ELSE IF not_mined_yet /\ ~Truthy(receive_txid) THEN "mining"
    ELSE IF Truthy(receive_txid) /\ ~Truthy(kt.receive_txid) THEN "mutate"
    ELSE "none"

\* the message of a branch that mutates nothing
BranchMessage(branch) ==
    CASE branch = "received" -> "This kudos has been received (info)"
      [] branch = "not_authed" -> "This kudos is for someone else"
      [] branch = "mining" -> "still mining"
      [] OTHER -> "none"

\* whether the mutation block reaches profile.save()
ClaimSavesProfile(kt, save_addr) ==
    Truthy(save_addr) /\ get_profile(kt.username) # 0

\* the statement of the mutation block that raises, "none" when none does:
\* params['save_addr'] and params['forwarding_address'] raise for a parameter
\* the query string does not carry
ClaimRaises(kt, GET, fail) ==
    IF GET.save_addr = Absent THEN "params[save_addr]"
    ELSE IF ClaimSavesProfile(kt, GET.save_addr) /\ GET.forwarding_address = Absent
        THEN "params[forwarding_address] for profile"
    ELSE IF ClaimSavesProfile(kt, GET.save_addr) /\ fail = "profile.save"
        THEN "profile.save"
    ELSE IF GET.forwarding_address = Absent THEN "params[forwarding_address]"
    ELSE IF fail = "kudos_transfer.save" THEN "kudos_transfer.save"
    ELSE IF fail = "record_user_action" THEN "record_user_action"
    ELSE "none"

\* profile.save() has run
ClaimProfileSaved(kt, save_addr, raised) ==
    /\ ClaimSavesProfile(kt, save_addr)
    /\ raised \notin {"params[save_addr]",
                      "params[forwarding_address] for profile", "profile.save"}

\* kudos_transfer.receive_txid = params['receive_txid'] has run
ClaimAssigned(raised) ==
    raised \notin {"params[save_addr]",
                   "params[forwarding_address] for profile", "profile.save"}

\* kudos_transfer.save() has run
ClaimRowSaved(raised) == raised \in {"record_user_action", "none"}

\* the row as the mutation block assigns it
ClaimRow(kt, GET, now) ==
    [kt EXCEPT !.receive_txid = GET.receive_txid,
               !.receive_address = GET.forwarding_address,
               !.received_on = now]

\* the context of the rendered page: is_authed, and disable_inputs computed
\* from the row in memory, the chain balance and the authorization
ReceiveContext(shown_received, is_authed, not_mined_yet) ==
    [is_authed |-> is_authed, not_mined_yet |-> not_mined_yet,
     disable_inputs |-> shown_received \/ not_mined_yet \/ ~is_authed]

\* the mutation block once its guard holds
ReceiveMutate(pk, GET, fail, now, is_authed, not_mined_yet) ==
    LET kt == transfers[pk]
        raised == ClaimRaises(kt, GET, fail)
    IN  /\ profiles' =
                IF ClaimProfileSaved(kt, GET.save_addr, raised)
                THEN [profiles EXCEPT
                        ![get_profile(kt.username)].preferred_payout_address =
                            GET.forwarding_address]
                ELSE profiles
        /\ transfers' =
                IF ClaimRowSaved(raised)
                THEN [transfers EXCEPT ![pk] = ClaimRow(kt, GET, now)]
                ELSE transfers
        /\ response' =
                [(IF raised = "none"
                  THEN Resp("receive", 200, "This kudos has been received (success)",
                            pk, TRUE, 0, TRUE,
                            record_kudos_email_activity(kt, kt.username, fail),
                            "none")
                  ELSE Resp("receive", 200, "exception", pk, ClaimRowSaved(raised),
                            0, ClaimAssigned(raised), "none", raised))
                 EXCEPT !.context =
                    ReceiveContext(ClaimAssigned(raised), is_authed, not_mined_yet)]

receive ==
    LET user == request.user
        GET == request.args.GET
        matching ==
            ReceiveMatches(request.args.key, request.args.txid, request.args.network)
    IN
    /\ request.op = "receive"
    /\ response.op = "none"
    /\ UNCHANGED request
    /\ UNCHANGED catalog
    /\ IF matching = {}
       THEN \* kudos_transfer is None: kudos_transfer.trust_url raises
            /\ response' =
                    Resp("receive", 500, "exception", 0, FALSE, 0, FALSE, "none",
                         "AttributeError")
            /\ UNCHANGED <<transfers, profiles>>
       ELSE LET pk == First(matching)
                kt == transfers[pk]
                is_authed == ReceiveIsAuthed(kt, user)
            IN  \E balance \in Balances :
                LET not_mined_yet == balance = 0
                    branch == ReceiveBranch(kt, is_authed, not_mined_yet,
                                            GetParam(GET.receive_txid))
                IN  IF LoginRequired(user)
                    THEN /\ response' =
                                Resp("receive", 302, "login redirect", pk, FALSE, 0,
                                     FALSE, "none", "none")
                         /\ UNCHANGED <<transfers, profiles>>
                    ELSE IF branch = "mutate"
                    THEN \E fail \in ClaimFailures, now \in Times :
                            ReceiveMutate(pk, GET, fail, now, is_authed,
                                          not_mined_yet)
                    ELSE /\ response' =
                                [Resp("receive", 200, BranchMessage(branch), pk,
                                      FALSE, 0, Truthy(kt.receive_txid), "none",
                                      "none")
                                 EXCEPT !.context =
                                    ReceiveContext(Truthy(kt.receive_txid),
                                                   is_authed, not_mined_yet)]
                         /\ UNCHANGED <<transfers, profiles>>

(***************************************************************************)
(* receive_bulk: the gate of a bulk coupon.                                *)
(***************************************************************************)
\* BulkTransferCoupon.objects.filter(secret=secret)
CouponsWithSecret(secret) == {c \in DOMAIN coupons : coupons[c].secret = secret}

\* BulkTransferRedemption.objects.filter(redeemed_by=profile, coupon=coupon)
RedemptionsOf(profile, coupon) ==
    {r \in redemptions : r.redeemed_by = profile /\ r.coupon = coupon}

\* the view reads the tables and writes none.  request.user.profile raises
\* for a caller without profile; HttpResponseForbidden is an HttpResponse, not
\* an exception, so `raise HttpResponseForbidden` raises TypeError
receive_bulk ==
    LET matching == CouponsWithSecret(request.args.secret)
        user == request.user
    IN
    /\ request.op = "receive_bulk"
    /\ response.op = "none"
    /\ UNCHANGED request
    /\ UNCHANGED <<transfers, profiles>>
    /\ UNCHANGED catalog
    /\ response' =
            IF matching = {}
            THEN Resp("receive_bulk", 404, "Http404", 0, FALSE, 0, FALSE, "none",
                      "Http404")
            ELSE LET coupon == First(matching) IN
                 IF user.profile = 0
                 THEN Resp("receive_bulk", 500, "exception", 0, FALSE, 0, FALSE,
                           "none", "AttributeError")
                 ELSE IF RedemptionsOf(user.profile, coupon) # {}
                 THEN Resp("receive_bulk", 500, "exception", 0, FALSE, 0, FALSE,
                           "none", "TypeError")
                 ELSE [Resp("receive_bulk", 200, "none", 0, FALSE, 0, FALSE,
                            "none", "none")
                       EXCEPT !.context = [coupon |-> coupon]]

(***************************************************************************)
(* details: the detail page of a token.                                    *)
(***************************************************************************)
\* Token.objects.get(token_id=kudos.cloned_from_id,
\*                   contract__address=kudos.contract.address)
Gen0Matches(kudos) ==
    {t \in DOMAIN tokens :
        /\ tokens[t].token_id = kudos.cloned_from_id
        /\ tokens[t].contract = kudos.contract}

\* a page that shows the values stored on the token itself
DetailsContextOwnValues(kudos, token) ==
    [num_clones_in_wild |-> kudos.num_clones_in_wild,
     num_gen0_clones_allowed |-> kudos.num_clones_allowed,
     num_clones_allowed |-> kudos.num_clones_allowed]

\* context['kudos']: num_clones_in_wild is overwritten with the value of the
\* token found, num_gen0_clones_allowed is a new attribute holding its
\* allowance, and num_clones_allowed stays the token's own
DetailsContext(kudos, token) ==
    [num_clones_in_wild |-> token.num_clones_in_wild,
     num_gen0_clones_allowed |-> token.num_clones_allowed,
     num_clones_allowed |-> kudos.num_clones_allowed]

details ==
    LET kudos_id == request.args.kudos_id IN
    /\ request.op = "details"
    /\ response.op = "none"
    /\ UNCHANGED request
    /\ UNCHANGED <<transfers, profiles>>
    /\ UNCHANGED catalog
    /\ response' =
            IF kudos_id \notin DOMAIN tokens
            THEN Resp("details", 404, "Http404", 0, FALSE, 0, FALSE, "none",
                      "Http404")
            ELSE LET kudos == tokens[kudos_id]
                     matching == Gen0Matches(kudos)
                 IN  IF Cardinality(matching) # 1
                     THEN Resp("details", 500, "exception", kudos_id, FALSE, 0,
                               FALSE, "none",
                               IF matching = {} THEN "DoesNotExist"
                               ELSE "MultipleObjectsReturned")
                     ELSE [Resp("details", 200, "none", kudos_id, FALSE, 0, FALSE,
                                "none", "none")
                           EXCEPT !.context =
                                DetailsContext(kudos,
                                    tokens[CHOOSE t \in matching : TRUE])]

(***************************************************************************)
(* The specification: requests are served one at a time, in any order.     *)
(***************************************************************************)
Next ==
    \/ \E r \in Requests : Accept(r)
    \/ send_3
    \/ send_4
    \/ receive
    \/ receive_bulk
    \/ details
    \/ Return

Spec == Init /\ [][Next]_vars

(***************************************************************************)
(* The same server once send_3 has stored the same metadata twice: send_3  *)
(* checks nothing about the metadata it stores, so two rows may carry one  *)
(* triple.  The table holds those two rows and a third with its own triple.*)
(***************************************************************************)
DuplicateTransfers ==
    <<NewTransfer([user |-> AliceUser, ip |-> "10.0.0.1"],
                  [username |-> AtBobName, metadata |-> Meta1,
                   network |-> "mainnet"]),
      NewTransfer([user |-> Anonymous, ip |-> "10.0.0.1"],
                  [username |-> BobName, metadata |-> Meta1,
                   network |-> "mainnet"]),
      NewTransfer([user |-> AliceUser, ip |-> "10.0.0.1"],
                  [username |-> BobName, metadata |-> Meta2,
                   network |-> "mainnet"])>>

InitDuplicates ==
    /\ transfers = DuplicateTransfers
    /\ profiles = InitProfiles
    /\ tokens = InitTokens
    /\ coupons = InitCoupons
    /\ redemptions = InitRedemptions
    /\ request = NoRequest
    /\ response = NoResponse

NextDuplicates ==
    \/ \E r \in Requests : r.op \in {"send_4", "receive"} /\ Accept(r)
    \/ send_4
    \/ receive
    \/ Return

SpecDuplicates == InitDuplicates /\ [][NextDuplicates]_vars

(***************************************************************************)
(* get_profile over Profile tables in which handles repeat, also in        *)
(* another case: three profiles, each with one of three handles, created   *)
(* at three different times in any order.  A caller (send_3, receive)      *)
(* looks a handle up and gets the result.                                  *)
(***************************************************************************)
BobCapsName == <<"B", "o", "b">>

ProfileHandles == {BobName, BobCapsName, AliceName}

\* the handles looked up: written as stored, in another case, and unknown
LookupHandles == {BobName, BobCapsName, CarolName, NoName}

ProfileTables ==
    {[p \in {1, 2, 3} |->
        [handle |-> h[p], created_on |-> c[p], preferred_payout_address |-> ""]] :
        h \in [{1, 2, 3} -> ProfileHandles],
        c \in {f \in [{1, 2, 3} -> {1, 2, 3}] :
                    \A x, y \in {1, 2, 3} : x # y => f[x] # f[y]}}

InitLookup ==
    /\ transfers = << >>
    /\ profiles \in ProfileTables
    /\ tokens = InitTokens
    /\ coupons = InitCoupons
    /\ redemptions = InitRedemptions
    /\ request = NoRequest
    /\ response = NoResponse

\* a caller's get_profile(handle) returns: the profile found (0: None), and no
\* exception, since both exceptions of objects.get are caught
LookupProfile ==
    /\ request.op = "get_profile"
    /\ response.op = "none"
    /\ response' =
            Resp("get_profile", 200, "none", get_profile(request.args.handle),
                 FALSE, 0, FALSE, "none", "none")
    /\ UNCHANGED <<transfers, profiles, request>>
    /\ UNCHANGED catalog

LookupRequests ==
    {Req("get_profile", Anonymous, "10.0.0.1", [handle |-> h]) :
        h \in LookupHandles}

NextLookup ==
    \/ \E r \in LookupRequests : Accept(r)
    \/ LookupProfile
    \/ Return

SpecLookup == InitLookup /\ [][NextLookup]_vars

(***************************************************************************)
(* Two requests on one row served at the same time, as two workers of the  *)
(* server do: each view reads the row (lookup, authorization, guards) in   *)
(* one step and saves it in a later one, and the steps of the two workers  *)
(* interleave.  Here `request` and `response` hold one entry per worker;   *)
(* the response entry also holds the worker's position, the row it has in  *)
(* memory, and how many saves had been made when it read and when it saved.*)
(***************************************************************************)
Workers == {1, 2}

\* the row both requests are about: created by send_3 and funded by send_4
FundedTransfer ==
    [NewTransfer([user |-> AliceUser, ip |-> "10.0.0.1"],
                 [username |-> BobName, metadata |-> Meta2, network |-> "mainnet"])
        EXCEPT !.txid = "0xdeadbeef"]

\* the requests the workers serve: send_4 from the sender's address, with the
\* stored or another txid, and claims by the recipient
ConcurrentRequests ==
    {Req("send_4", AliceUser, "10.0.0.1",
         [triple |-> TripleOf(Meta2), txid |-> t, is_direct_to_recipient |-> d]) :
        t \in {"0xdeadbeef", "0xfeed"}, d \in BOOLEAN}
    \cup
    {Req("receive", BobUser, "10.0.0.2",
         [key |-> "hr2", txid |-> "0xdeadbeef", network |-> "mainnet", GET |-> q]) :
        q \in {[receive_txid |-> "0xrecv", forwarding_address |-> "0xfwd",
                save_addr |-> "true"],
               [receive_txid |-> "0xrecv2", forwarding_address |-> "0xfwd2",
                save_addr |-> ""]}}

WorkerState(pc, status, message, pk, kt, read_after, saved_as) ==
    [pc |-> pc, status |-> status, message |-> message, pk |-> pk, kt |-> kt,
     read_after |-> read_after, saved_as |-> saved_as]

NoRow == [none |-> TRUE]

\* the saves made so far
SavesMade == Cardinality({v \in Workers : response[v].saved_as > 0})

InitConcurrent ==
    /\ transfers = <<FundedTransfer>>
    /\ profiles = InitProfiles
    /\ tokens = InitTokens
    /\ coupons = InitCoupons
    /\ redemptions = InitRedemptions
    /\ request \in [Workers -> ConcurrentRequests]
    /\ response = [w \in Workers |-> WorkerState("start", 0, "none", 0, NoRow, 0, 0)]

\* a save that writes the row only if it is still as the worker read it
ModelSaveIfUnchanged(stored, read, kt) == IF stored = read THEN kt ELSE stored

\* Model.save(): an UPDATE of every column with the values in memory, whatever
\* the stored row has become since it was read
ModelSave(stored, read, kt) == kt

\* a worker's response is final
Finish(w, status, message, pk) ==
    response' =
        [response EXCEPT ![w] = WorkerState("done", status, message, pk, NoRow, SavesMade, 0)]

\* send_4 up to the assignment of the fields in memory
send_4_read(w) ==
    LET req == request[w]
        matching == Send4Matches(req.args.triple)
    IN  /\ req.op = "send_4"
        /\ response[w].pc = "start"
        /\ UNCHANGED <<transfers, profiles, request>>
        /\ UNCHANGED catalog
        /\ IF ~Send4Resolves(matching)
           THEN Finish(w, 500, "exception", 0)
           ELSE LET pk == CHOOSE i \in matching : TRUE
                    kt == transfers[pk]
                IN  IF ~Send4IsAuthed(kt, req)
                    THEN Finish(w, 401, "Permission Denied", pk)
                    ELSE response' =
                            [response EXCEPT ![w] =
                                WorkerState("read", 0, "none", pk, kt, SavesMade, 0)]

\* kudos_transfer.save() of send_4, the notification and the response
send_4_save(w) ==
    LET req == request[w]
        pk == response[w].pk
        kt == Send4Save(response[w].kt, req.args.txid,
                        req.args.is_direct_to_recipient)
    IN  /\ req.op = "send_4"
        /\ response[w].pc = "read"
        /\ transfers' =
                [transfers EXCEPT ![pk] = ModelSave(transfers[pk], response[w].kt, kt)]
        /\ \E sink \in SinkOutcomes :
                response' =
                    [response EXCEPT ![w] =
                        WorkerState("done", Send4Notify(pk, sink).status,
                                    Send4Notify(pk, sink).message, pk, kt,
                                    response[w].read_after, SavesMade + 1)]
        /\ UNCHANGED <<profiles, request>>
        /\ UNCHANGED catalog

\* receive up to the start of the mutation block
receive_read(w) ==
    LET req == request[w]
        GET == req.args.GET
        matching == ReceiveMatches(req.args.key, req.args.txid, req.args.network)
    IN  /\ req.op = "receive"
        /\ response[w].pc = "start"
        /\ UNCHANGED <<transfers, profiles, request>>
        /\ UNCHANGED catalog
        /\ IF matching = {}
           THEN Finish(w, 500, "exception", 0)
           ELSE LET pk == First(matching)
                    kt == transfers[pk]
                    is_authed == ReceiveIsAuthed(kt, req.user)
                IN  \E balance \in Balances :
                    LET branch == ReceiveBranch(kt, is_authed, balance = 0,
                                                GetParam(GET.receive_txid))
                    IN  IF LoginRequired(req.user)
                        THEN Finish(w, 302, "login redirect", pk)
                        ELSE IF branch # "mutate"
                        THEN Finish(w, 200, BranchMessage(branch), pk)
                        ELSE response' =
                                [response EXCEPT ![w] =
                                    WorkerState("read", 0, "none", pk, kt,
                                                SavesMade, 0)]

\* the mutation block of receive when no statement of it raises
receive_save(w) ==
    LET req == request[w]
        GET == req.args.GET
        pk == response[w].pk
    IN  /\ req.op = "receive"
        /\ response[w].pc = "read"
        /\ \E now \in Times :
            LET kt == ClaimRow(response[w].kt, GET, now) IN
            /\ transfers' =
                    [transfers EXCEPT
                        ![pk] = ModelSave(transfers[pk], response[w].kt, kt)]
            /\ response' =
                    [response EXCEPT ![w] =
                        WorkerState("done", 200,
                                    "This kudos has been received (success)", pk,
                                    kt, response[w].read_after, SavesMade + 1)]
        /\ profiles' =
                IF ClaimSavesProfile(response[w].kt, GET.save_addr)
                THEN [profiles EXCEPT
                        ![get_profile(response[w].kt.username)]
                            .preferred_payout_address = GET.forwarding_address]
                ELSE profiles
        /\ UNCHANGED request
        /\ UNCHANGED catalog

NextConcurrent ==
    \E w \in Workers :
        \/ send_4_read(w)
        \/ send_4_save(w)
        \/ receive_read(w)
        \/ receive_save(w)

SpecConcurrent == InitConcurrent /\ [][NextConcurrent]_vars

(***************************************************************************)
(* Vocabulary of the properties.                                           *)
(***************************************************************************)
\* the lifecycle stage of a row: 1 CREATED, 2 FUNDED, 3 CLAIMED
Stage(kt) ==
    IF kt.receive_txid # "" THEN 3 ELSE IF kt.txid # "" THEN 2 ELSE 1

\* this step is the view `op` handling the accepted request
Handled(op) == request.op = op /\ response.op = "none" /\ response'.op = op

\* this step is the view `op` saving row i
StoredBy(op, i) == Handled(op) /\ response'.pk = i /\ response'.saved

\* the view `op` has answered the accepted request
Answered(op) == request.op = op /\ response.op = op

\* nothing in the database changes in this step
StoreUnchanged ==
    /\ transfers' = transfers
    /\ profiles' = profiles
    /\ UNCHANGED catalog

(***************************************************************************)
(* C1.  Once a row's receive_txid is non-empty, no later request changes   *)
(* any field of that row.  Stated as: every step leaves every row with a   *)
(* non-empty receive_txid as it was.  send_4 resolves the row by its       *)
(* metadata triple alone and overwrites txid, so this does not hold.       *)
(***************************************************************************)
C1_TerminalRowNeverMutated ==
    [][\A i \in Pks :
            transfers[i].receive_txid # "" => transfers'[i] = transfers[i]]_vars

(***************************************************************************)
(* C2.  The lifecycle stage of a row (CREATED, FUNDED, CLAIMED) never      *)
(* moves backwards, whatever the requests carry.  A send_4 with an empty   *)
(* txid takes a FUNDED row back to CREATED, so this does not hold.         *)
(***************************************************************************)
C2_StageNeverMovesBackwards ==
    [][\A i \in Pks : Stage(transfers'[i]) >= Stage(transfers[i])]_vars

(***************************************************************************)
(* C3.  txid is empty unless a send_4 has stored the row, receive_txid and *)
(* received_on are empty unless a receive has stored it, and a row just    *)
(* inserted has all three empty.  Stated on steps: a field leaves the     *)
(* empty value only in a step of the view named, and a new row is empty.   *)
(***************************************************************************)
\* the original statement: only a claim sets receive_txid
C3_ReceiveFieldsOnlyByClaim ==
    [][/\ \A i \in Pks :
            /\ (transfers[i].txid = "" /\ transfers'[i].txid # "")
                    => StoredBy("send_4", i)
            /\ (transfers[i].receive_txid = "" /\ transfers'[i].receive_txid # "")
                    => StoredBy("receive", i)
            /\ (transfers[i].received_on = 0 /\ transfers'[i].received_on # 0)
                    => StoredBy("receive", i)
       /\ \A i \in DOMAIN transfers' \ Pks :
            /\ transfers'[i].txid = ""
            /\ transfers'[i].receive_txid = ""
            /\ transfers'[i].received_on = 0]_vars

\* C3 as amended: receive_txid is also set by a send_4 flagged
\* direct-to-recipient, to the txid it stores
C3_FieldsEmptyUntilStored ==
    [][/\ \A i \in Pks :
            /\ (transfers[i].txid = "" /\ transfers'[i].txid # "")
                    => StoredBy("send_4", i)
            /\ (transfers[i].receive_txid = "" /\ transfers'[i].receive_txid # "")
                    => \/ StoredBy("receive", i)
                       \/ /\ StoredBy("send_4", i)
                          /\ request.args.is_direct_to_recipient
                          /\ transfers'[i].receive_txid = transfers'[i].txid
            /\ (transfers[i].received_on = 0 /\ transfers'[i].received_on # 0)
                    => StoredBy("receive", i)
       /\ \A i \in DOMAIN transfers' \ Pks :
            /\ transfers'[i].txid = ""
            /\ transfers'[i].receive_txid = ""
            /\ transfers'[i].received_on = 0]_vars

\* a direct-to-recipient send_4 has stored a row: receive_txid is set and no
\* claim has run on it
C3_Witness ==
    /\ Answered("send_4")
    /\ response.saved
    /\ request.args.is_direct_to_recipient
    /\ transfers[response.pk].receive_txid # ""
    /\ transfers[response.pk].receive_txid = transfers[response.pk].txid
    /\ transfers[response.pk].received_on = 0

(***************************************************************************)
(* C4.  send_4 is authorized only if the row's stored IP equals the        *)
(* caller's IP or the row's stored sender username equals the caller's     *)
(* authenticated username; an unauthenticated caller passes by the IP      *)
(* match alone, also when the stored sender username is empty.  A caller   *)
(* failing both gets 401 Permission Denied, nothing is stored and no       *)
(* notification is dispatched.                                             *)
(***************************************************************************)
\* the authorization rule as the claim words it
C4_Authorized(kt) ==
    \/ kt.ip = request.ip
    \/ /\ request.user.is_authenticated
       /\ kt.from_username = request.user.username

C4_ConfirmFundingAuthorization ==
    [][(Handled("send_4")
            /\ Cardinality(Send4Matches(request.args.triple)) = 1)
        => LET kt == transfers[CHOOSE i \in Send4Matches(request.args.triple) : TRUE]
           IN  IF C4_Authorized(kt)
               THEN response'.status # 401 /\ response'.saved
               ELSE /\ response'.status = 401
                    /\ response'.message = "Permission Denied"
                    /\ response'.notified = 0
                    /\ StoreUnchanged]_vars

\* an unauthenticated caller from another address is refused on a row whose
\* stored sender username is empty, and the row still has no txid
C4_Witness ==
    /\ Answered("send_4")
    /\ response.status = 401
    /\ ~request.user.is_authenticated
    /\ transfers[response.pk].from_username = NoName
    /\ transfers[response.pk].ip # request.ip
    /\ transfers[response.pk].txid = ""

(***************************************************************************)
(* C5.  For a row in CREATED state, a send_4 with the matching triple from *)
(* a caller whose IP equals the stored IP sets txid to the supplied value  *)
(* and moves the row to FUNDED; flagged direct-to-recipient it also sets   *)
(* receive_txid to the same value.  Exactly one notification dispatch is   *)
(* attempted per successful request.                                       *)
(***************************************************************************)
\* the step the claim is about: send_4 resolving a CREATED row by its triple,
\* from the stored IP
C5_Case(i) ==
    /\ Handled("send_4")
    /\ Send4Matches(request.args.triple) = {i}
    /\ Stage(transfers[i]) = 1
    /\ transfers[i].ip = request.ip

C5_ConfirmFundingMovesToFunded ==
    [][\A i \in Pks :
        C5_Case(i)
        => /\ transfers'[i].txid = request.args.txid
           /\ Stage(transfers'[i]) =
                IF request.args.is_direct_to_recipient THEN 3 ELSE 2
           /\ request.args.is_direct_to_recipient
                => transfers'[i].receive_txid = transfers'[i].txid
           /\ response'.notified = 1]_vars

(***************************************************************************)
(* C6.  Once a row's receive_txid is non-empty, every later receive on it, *)
(* whatever the caller, the key role and the claim parameters, changes no  *)
(* field of the row and no Profile and yields the informational "This      *)
(* kudos has been received" message.                                       *)
(***************************************************************************)
\* the step the claim is about: receive resolving row i, already claimed
C6_Case(i) ==
    /\ Handled("receive")
    /\ ReceiveMatches(request.args.key, request.args.txid, request.args.network) # {}
    /\ i = First(ReceiveMatches(request.args.key, request.args.txid,
                                request.args.network))
    /\ transfers[i].receive_txid # ""

\* the caller has a session and a linked profile
C6_LoggedIn == request.user.is_authenticated /\ request.user.profile # 0

\* the original statement: every caller gets the message
C6_ClaimedRowAlwaysYieldsMessage ==
    [][\A i \in Pks :
        C6_Case(i)
        => /\ StoreUnchanged
           /\ response'.message = "This kudos has been received (info)"]_vars

\* C6 as amended: a caller without a session or without a linked profile is
\* redirected to the login flow instead of getting the message
C6_ClaimedRowIsNoOp ==
    [][\A i \in Pks :
        C6_Case(i)
        => /\ StoreUnchanged
           /\ response'.pk = i
           /\ IF C6_LoggedIn
              THEN /\ response'.status = 200
                   /\ response'.message = "This kudos has been received (info)"
              ELSE response'.status = 302]_vars

\* the recipient submits the claim form again on a claimed row: the row keeps
\* the receive_txid of the first claim and the message is shown
C6_Witness ==
    /\ Answered("receive")
    /\ response.message = "This kudos has been received (info)"
    /\ request.args.GET.receive_txid # Absent
    /\ request.args.GET.forwarding_address # Absent
    /\ transfers[response.pk].receive_txid # ""
    /\ transfers[response.pk].received_on # 0

(***************************************************************************)
(* C7.  A receive mutates state only when the row carries the trust-url    *)
(* flag or the authenticated caller's username (ignoring a leading "@")    *)
(* equals the row's recipient or sender username; for any other caller on  *)
(* an unclaimed row the request changes neither the row nor any Profile    *)
(* and yields the error message naming the expected recipient, even when   *)
(* claim parameters are supplied.                                          *)
(***************************************************************************)
\* the step the claim is about: receive resolving row i, not yet claimed
C7_Case(i) ==
    /\ Handled("receive")
    /\ ReceiveMatches(request.args.key, request.args.txid, request.args.network) # {}
    /\ i = First(ReceiveMatches(request.args.key, request.args.txid,
                                request.args.network))
    /\ transfers[i].receive_txid = ""

\* the authorization rule as the claim words it
C7_Authorized(kt) ==
    \/ kt.trust_url
    \/ /\ request.user.is_authenticated
       /\ LStripAt(request.user.username) \in
                {LStripAt(kt.username), LStripAt(kt.from_username)}

\* the authorization rule of the code: every "@" of the three names is
\* ignored, wherever it stands, and the row alone decides when it is trusted
C7_AuthorizedModuloAt(kt) ==
    \/ kt.trust_url
    \/ /\ request.user.is_authenticated
       /\ StripAt(request.user.username) \in
                {StripAt(kt.username), StripAt(kt.from_username)}

\* the original statement: every other caller gets the error message
C7_OtherCallerAlwaysYieldsError ==
    [][\A i \in Pks :
        C7_Case(i)
        => /\ ~StoreUnchanged => C7_Authorized(transfers[i])
           /\ ~C7_Authorized(transfers[i])
                => /\ StoreUnchanged
                   /\ response'.message = "This kudos is for someone else"]_vars

\* C7 as amended: the names are compared with every "@" removed, and a caller
\* without a session or without a linked profile is redirected to the login
\* flow instead of getting the error message
C7_ClaimAuthorization ==
    [][\A i \in Pks :
        C7_Case(i)
        => /\ ~StoreUnchanged => C7_AuthorizedModuloAt(transfers[i])
           /\ ~C7_AuthorizedModuloAt(transfers[i])
                => /\ StoreUnchanged
                   /\ response'.pk = i
                   /\ IF request.user.is_authenticated /\ request.user.profile # 0
                      THEN /\ response'.status = 200
                           /\ response'.message = "This kudos is for someone else"
                      ELSE response'.status = 302]_vars

\* a logged-in third party submits the claim form on a funded row without the
\* trust-url flag: the error is shown and the row is still unclaimed
C7_Witness ==
    /\ Answered("receive")
    /\ response.message = "This kudos is for someone else"
    /\ request.args.GET.receive_txid # Absent
    /\ request.args.GET.forwarding_address # Absent
    /\ ~transfers[response.pk].trust_url
    /\ transfers[response.pk].receive_txid = ""
    /\ transfers[response.pk].txid # ""

(***************************************************************************)
(* C8.  For a logged-in, authorized caller on a row whose receive_txid is  *)
(* empty, a receive that supplies receive_txid and forwarding_address sets *)
(* receive_txid and receive_address to the supplied values and received_on *)
(* to the current time, whether or not save_addr is in the request.        *)
(* params['save_addr'] raises for a request without save_addr, so this     *)
(* does not hold.  (Steps in which the environment makes a save fail are   *)
(* left out: they are the subject of C9.)                                  *)
(***************************************************************************)
C8_ClaimSucceedsWithoutSaveAddr ==
    [][\A i \in Pks :
        (/\ C7_Case(i)
         /\ request.user.is_authenticated /\ request.user.profile # 0
         /\ C7_Authorized(transfers[i])
         /\ request.args.GET.receive_txid \notin {Absent, ""}
         /\ request.args.GET.forwarding_address # Absent
         /\ response'.raised \notin {"profile.save", "kudos_transfer.save"})
        => /\ transfers'[i].receive_txid = request.args.GET.receive_txid
           /\ transfers'[i].receive_address = request.args.GET.forwarding_address
           /\ transfers'[i].received_on # 0
           /\ Stage(transfers'[i]) = 3]_vars

(***************************************************************************)
(* C9.  If a statement of the mutation block of receive raises, the        *)
(* exception is not propagated, the page is rendered with an error         *)
(* message, and it reflects the pre-mutation state: the stored row and the *)
(* stored Profile are as before the request and the rendered row is not    *)
(* shown as received.  The block saves the Profile and the row before the  *)
(* later statements run, so this does not hold.                            *)
(***************************************************************************)
C9_MutationFailureLeavesStateAsBefore ==
    [][(Handled("receive")
            /\ response'.pk # 0
            /\ response'.status # 302
            /\ response'.raised # "none")
        => /\ response'.status = 200
           /\ response'.message = "exception"
           /\ StoreUnchanged
           /\ ~response'.shown_received]_vars

(***************************************************************************)
(* C10.  A failure of the notification / activity sink never fails the     *)
(* parent operation: when the dispatch raises in a send_4 that stored the  *)
(* txid, the request still returns its success status and the txid stays   *)
(* stored; when the activity entry cannot be recorded in receive, the      *)
(* claim still completes.  send_4 calls the dispatch outside any try       *)
(* block, so the first half does not hold.                                 *)
(***************************************************************************)
C10_SinkFailureNeverFailsParent ==
    /\ (Answered("send_4") /\ response.saved
            /\ response.raised = "maybe_market_kudos_to_email")
        => /\ response.status = 200
           /\ transfers[response.pk].txid = request.args.txid
    /\ (Answered("receive") /\ response.activity = "swallowed")
        => /\ response.status = 200
           /\ response.message = "This kudos has been received (success)"
           /\ transfers[response.pk].receive_txid = request.args.GET.receive_txid

(***************************************************************************)
(* C11.  A send_3 whose token reference is missing or resolves to no Token *)
(* row fails with Http404 and inserts no KudosTransfer row: the stored     *)
(* rows are the same before and after the request.                         *)
(***************************************************************************)
C11_MissingTokenInsertsNothing ==
    [][(Handled("send_3")
            /\ (request.args.kudosId = 0
                    \/ request.args.kudosId \notin DOMAIN tokens))
        => /\ response'.status = 404
           /\ response'.raised = "Http404"
           /\ ~response'.saved
           /\ StoreUnchanged]_vars

\* a send_3 naming a token id that no Token row has was answered 404
C11_Witness ==
    /\ Answered("send_3")
    /\ response.status = 404
    /\ request.args.kudosId # 0
    /\ request.args.kudosId \notin DOMAIN tokens

(***************************************************************************)
(* C12.  send_4 resolves its row by the metadata triple: when no row or    *)
(* more than one row matches, the request fails with DoesNotExist or       *)
(* MultipleObjectsReturned, no row is changed and no notification is       *)
(* dispatched; a row is only ever updated by a send_4 whose triple matches *)
(* that row and no other.                                                  *)
(***************************************************************************)
\* the rows whose metadata carries the triple of the request
C12_Matching ==
    {i \in Pks :
        /\ transfers[i].metadata.address = request.args.triple.address
        /\ transfers[i].metadata.creation_time = request.args.triple.creation_time
        /\ transfers[i].metadata.salt = request.args.triple.salt}

C12_OnlyUniqueMatchIsUpdated ==
    [][Handled("send_4")
        => /\ C12_Matching = {}
                => /\ response'.status = 500
                   /\ response'.raised = "DoesNotExist"
                   /\ response'.notified = 0
                   /\ StoreUnchanged
           /\ Cardinality(C12_Matching) > 1
                => /\ response'.status = 500
                   /\ response'.raised = "MultipleObjectsReturned"
                   /\ response'.notified = 0
                   /\ StoreUnchanged
           /\ \A i \in Pks :
                transfers'[i] # transfers[i] => C12_Matching = {i}]_vars

\* a send_4 with a txid whose triple two rows carry has failed, and both rows
\* are still without txid
C12_Witness ==
    /\ Answered("send_4")
    /\ response.raised = "MultipleObjectsReturned"
    /\ request.args.txid # ""
    /\ Cardinality(C12_Matching) = 2
    /\ \A i \in C12_Matching : transfers[i].txid = ""

(***************************************************************************)
(* C13.  A receive whose key is neither the recipient reference hash nor   *)
(* the funder reference hash of any row matching (network, txid) resolves  *)
(* no row: the caller gets an error (kudos_transfer is None and the view   *)
(* fails with AttributeError, status 500) and no KudosTransfer row and no  *)
(* Profile is changed.                                                     *)
(***************************************************************************)
\* the rows that carry the txid and network of the request
C13_SameTxidAndNetwork ==
    {i \in Pks :
        /\ transfers[i].web3_type = "v3"
        /\ transfers[i].txid = request.args.txid
        /\ transfers[i].network = request.args.network}

\* the key of the request is a reference hash of none of those rows
C13_KeyMatchesNoRow ==
    \A i \in C13_SameTxidAndNetwork :
        /\ transfers[i].metadata.reference_hash_for_receipient # request.args.key
        /\ transfers[i].metadata.reference_hash_for_funder # request.args.key

C13_UnknownKeyResolvesNothing ==
    [][(Handled("receive") /\ C13_KeyMatchesNoRow)
        => /\ response'.status = 500
           /\ response'.raised = "AttributeError"
           /\ response'.pk = 0
           /\ StoreUnchanged]_vars

\* a logged-in recipient sent a claim with a key that is no reference hash of
\* the funded row with that txid and network: the error, and the row unclaimed
C13_Witness ==
    /\ Answered("receive")
    /\ response.status = 500
    /\ request.user = BobUser
    /\ request.args.GET.receive_txid # Absent
    /\ C13_SameTxidAndNetwork # {}
    /\ C13_KeyMatchesNoRow
    /\ \A i \in C13_SameTxidAndNetwork : transfers[i].receive_txid = ""

(***************************************************************************)
(* C14.  A receive from a caller without a session, or with a session but  *)
(* no linked profile, is answered with the login redirect before the row   *)
(* lookup, the authorization check, the balance query or any guard runs:   *)
(* it always ends in the redirect and changes no state.  The view runs the *)
(* lookup, the authorization and the balance query first (the redirect is  *)
(* its fourth statement), so a request that resolves no row fails in the   *)
(* lookup and this does not hold.                                          *)
(***************************************************************************)
C14_LoginRedirectComesFirst ==
    [][(Handled("receive")
            /\ (~request.user.is_authenticated \/ request.user.profile = 0))
        => /\ response'.status = 302
           /\ response'.message = "login redirect"
           /\ StoreUnchanged]_vars

(***************************************************************************)
(* C15.  receive_bulk for a secret and a profile: when no coupon has the   *)
(* secret the result is Http404; when a redemption row exists for the      *)
(* profile and the coupon the call is rejected with a Forbidden response   *)
(* (403); otherwise it succeeds and returns that coupon.  In every case no *)
(* coupon or redemption row is created, changed or deleted.  The view      *)
(* raises the response class HttpResponseForbidden, which is no exception, *)
(* so the rejection is a TypeError (500) and this does not hold.           *)
(***************************************************************************)
C15_GateOutcomes ==
    [][(Handled("receive_bulk") /\ request.user.profile # 0)
        => LET matching ==
                {c \in DOMAIN coupons : coupons[c].secret = request.args.secret}
           IN  /\ UNCHANGED <<coupons, redemptions>>
               /\ IF matching = {}
                  THEN response'.status = 404
                  ELSE \E c \in matching :
                        IF [redeemed_by |-> request.user.profile, coupon |-> c]
                                \in redemptions
                        THEN response'.status = 403
                        ELSE /\ response'.status = 200
                             /\ response'.context = [coupon |-> c]]_vars

(***************************************************************************)
(* C16.  Concurrent send_4 or receive requests on one row are serialised   *)
(* by no lock and no compare-and-swap: when two such requests both read    *)
(* the row before either saves, neither is rejected, both saves are        *)
(* applied, and the stored row ends with the field values written by the   *)
(* save that executes last.                                                *)
(***************************************************************************)
\* both workers have answered, and each had read the row before any save
C16_BothReadBeforeEitherSaved ==
    \A w \in Workers : response[w].pc = "done" /\ response[w].read_after = 0

C16_LastWriterWins ==
    C16_BothReadBeforeEitherSaved
    => /\ \A w \in Workers :
            /\ response[w].saved_as \in {1, 2}
            /\ response[w].status \notin {401, 302}
            /\ request[w].op = "receive"
                => response[w].message = "This kudos has been received (success)"
       /\ \E w \in Workers :
            /\ response[w].saved_as = 2
            /\ transfers[response[w].pk] = response[w].kt

\* a claim and a send_4 both read the funded row; the claim saved first and
\* was answered with success, the send_4 saved last: the stored row is the one
\* send_4 had in memory, without the fields of the claim
C16_Witness ==
    /\ C16_BothReadBeforeEitherSaved
    /\ request[1].op = "receive"
    /\ request[2].op = "send_4"
    /\ response[1].saved_as = 1
    /\ response[1].message = "This kudos has been received (success)"
    /\ response[2].saved_as = 2
    /\ transfers[1].txid = request[2].args.txid
    /\ transfers[1].receive_txid = ""

(***************************************************************************)
(* C17.  An authorized receive on an unclaimed row whose destination       *)
(* address has balance zero and which carries no receive_txid parameter    *)
(* changes no state and yields the "still mining" message.  The mining     *)
(* guard comes after the already-claimed guard and the authorization       *)
(* guard: with balance zero a claimed row still yields "received" and an   *)
(* unauthorized caller still gets the error.  A request takes at most one  *)
(* branch: only the mutation branch changes state, and it shows none of    *)
(* the three messages.                                                     *)
(***************************************************************************)
\* the messages of the three guards that mutate nothing
C17_GuardMessages ==
    {"This kudos has been received (info)", "This kudos is for someone else",
     "still mining"}

C18_IsTemplateOf(g, t) ==
    /\ tokens[g].num_clones_allowed > 0
    /\ tokens[g].token_id = tokens[t].cloned_from_id
    /\ tokens[g].contract = tokens[t].contract

C18_CloneShowsTemplateCounts ==
    (/\ Answered("details")
     /\ request.args.kudos_id \in DOMAIN tokens
     /\ tokens[request.args.kudos_id].num_clones_allowed = 0)
    => \E g \in DOMAIN tokens :
        /\ C18_IsTemplateOf(g, request.args.kudos_id)
        /\ response.status = 200
        /\ response.context.num_clones_in_wild = tokens[g].num_clones_in_wild
        /\ response.context.num_gen0_clones_allowed = tokens[g].num_clones_allowed

\* the detail view of the clone 99 was rendered with the counts of 42, which
\* are not the counts stored on 99
C18_Witness ==
    /\ Answered("details")
    /\ request.args.kudos_id = 99
    /\ response.status = 200
    /\ response.context.num_clones_in_wild = tokens[42].num_clones_in_wild
    /\ response.context.num_gen0_clones_allowed = tokens[42].num_clones_allowed
    /\ tokens[99].num_clones_in_wild # tokens[42].num_clones_in_wild
    /\ tokens[99].num_clones_allowed # tokens[42].num_clones_allowed

(***************************************************************************)
(* C19.  get_profile never raises to the caller: for every handle and      *)
(* every Profile table it returns no profile when none has that handle     *)
(* (compared without regard to case), the profile when exactly one has it, *)
(* and the most recently created one when several share it.                *)
(***************************************************************************)
\* the profiles whose handle is the one looked up, but for the case
C19_SameHandle ==
    {p \in DOMAIN profiles :
        /\ Len(profiles[p].handle) = Len(request.args.handle)
        /\ \A k \in 1..Len(request.args.handle) :
                LowerChar(profiles[p].handle[k]) = LowerChar(request.args.handle[k])}

C19_LookupDegradesGracefully ==
    Answered("get_profile")
    => /\ response.raised = "none"
       /\ C19_SameHandle = {} => response.pk = 0
       /\ C19_SameHandle # {}
            => /\ response.pk \in C19_SameHandle
               /\ \A q \in C19_SameHandle :
                    profiles[q].created_on <= profiles[response.pk].created_on

\* two profiles share the handle looked up, one of them written in another
\* case; the one returned is the later created, which has the higher pk in
\* one table and the lower pk in another (here: the lower)
C19_Witness ==
    /\ Answered("get_profile")
    /\ Cardinality(C19_SameHandle) = 2
    /\ \E q \in C19_SameHandle :
            /\ q > response.pk
            /\ profiles[q].handle # profiles[response.pk].handle
            /\ profiles[q].created_on < profiles[response.pk].created_on

(***************************************************************************)
(* C20.  A row is never claimed without being funded: in every reachable   *)
(* state a row with a non-empty receive_txid has a non-empty txid.         *)
(* receive resolves rows by their stored txid, but send_4 stores any txid  *)
(* on any row it resolves, also the empty one on a claimed row, so this    *)
(* does not hold.                                                          *)
(***************************************************************************)
C20_ClaimedImpliesFunded ==
    \A i \in Pks : transfers[i].receive_txid # "" => transfers[i].txid # ""

(***************************************************************************)
(* C21.  A completed claim is never lost to a stale write: for every       *)
(* interleaving of the read and save steps of concurrent send_4 and        *)
(* receive requests on one row, once a claim has stored a non-empty        *)
(* receive_txid, receive_address and received_on, the stored row keeps a   *)
(* non-empty receive_txid and received_on.  A send_4 that read the row     *)
(* before the claim saves every column of the row it has in memory after   *)
(* it, so this does not hold.                                              *)
(***************************************************************************)
C21_ClaimIsNeverLost ==
    [][\A i \in Pks :
        (/\ transfers[i].receive_txid # ""
         /\ transfers[i].receive_address # ""
         /\ transfers[i].received_on # 0)
        => /\ transfers'[i].receive_txid # ""
           /\ transfers'[i].received_on # 0]_vars

(***************************************************************************)
(* C22.  A receive changes the preferred payout address of a Profile only  *)
(* when the authenticated caller's username is that Profile's handle: a    *)
(* caller authorized only as the sender of the transfer, or only through   *)
(* the trust-url flag of the row, cannot change the recipient's payout     *)
(* address.  The mutation block saves the address on the profile of the    *)
(* row's recipient, whoever the caller is, so this does not hold.          *)
(***************************************************************************)
\* the caller is logged in under the handle of profile p (the case and any "@"
\* set aside)
C22_CallerOwns(p) ==
    /\ request.user.is_authenticated
    /\ Lower(StripAt(request.user.username)) = Lower(StripAt(profiles[p].handle))

C22_PayoutAddressOnlyByOwner ==
    [][\A p \in DOMAIN profiles :
        (/\ Handled("receive")
         /\ profiles'[p].preferred_payout_address
                # profiles[p].preferred_payout_address)
        => C22_CallerOwns(p)]_vars

====
